---- MODULE Spec2Model ----
(***************************************************************************)
(* The weather service: the 30-second fetch cycle (fetch, store with       *)
(* retention sweep, threshold evaluation), the daily aggregation job, the   *)
(* scheduler that starts both, the shared SQLAlchemy session, and the      *)
(* process-wide Thresholds object with its unsynchronised update.          *)
(*                                                                         *)
(* Time is counted in hours.  Temperatures are counted in hundredths of a  *)
(* degree (the code uses floats: kelvin - 273.15); every other metric and  *)
(* every threshold bound is a plain integer.                               *)
(***************************************************************************)
EXTENDS Integers, Sequences, FiniteSets, TLC

VARIABLES
    now,               \* datetime.now(), in hours
    ticks,             \* how often the clock has advanced
    realtime_weather,  \* committed rows of table realtime_weather
    alert_events,      \* committed rows of table alert_events
    session,           \* the module-level Session: "active" | "inactive"
    thresholds,        \* the six attributes of the module-level Thresholds
    upd,               \* the thread running save_values / update_thresholds
    updates,           \* how many threshold saves were submitted
    rd,                \* a thread inside Thresholds.get_thresholds
    pc,                \* position of fetch_and_insert_data
    idx,               \* index of the city the cycle is at
    weather_data,      \* the dict returned by fetch_weather_data
    cycles,            \* how many fetch cycles were started
    log,               \* per city, which logging call ended its pipeline
    ran,               \* per city, the calls made for it in this cycle
    escaped,           \* an exception left fetch_and_insert_data
    call,              \* history of the current insert_realtime_weather call
    evalNo,            \* number of threshold evaluations made so far
    lastEval,          \* history of the latest check_data_against_alerts
    written,           \* history of the configurations handed to updates
    scheduler,         \* the AsyncIOScheduler: "stopped" | "running" | "shutdown"
    next_run_time,     \* next fire time of the cron job, in hours
    fired,             \* history of the times the cron job was started at
    daily_weather,     \* committed rows of table daily_weather
    pending,           \* DailyWeather objects merged into the session, unflushed
    agg,               \* the thread running aggregate_daily_weather
    request_counts,    \* utils.request_counts: per client its count and timestamp
    current_time,      \* time(), in seconds
    requests,          \* how many requests have arrived
    last_request,      \* history of the latest request through rate_limit
    handled,           \* per client, the handler calls since its window began
    mock_get,          \* the response a test patches requests.get with
    fetched,           \* what a test's call of fetch_weather_data came to
    alone,             \* per client, its request_counts entry had it been alone
    last_save,         \* history of the latest save_values callback
    cache,             \* the dict of cache_with_timeout: per key value, timestamp
    utc,               \* the clock of the cache's calls, UTC seconds
    utcoffset,         \* local time less UTC of the process, in seconds
    calls,             \* how many calls went through the cache
    last_call          \* history of the latest call through the cache

jobVars == <<scheduler, next_run_time, fired>>

aggVars == <<daily_weather, pending, agg>>

rateVars ==
    <<request_counts, current_time, requests, last_request, handled, alone>>

testVars == <<mock_get, fetched>>

dashVars == <<last_save>>

cacheVars == <<cache, utc, utcoffset, calls, last_call>>

vars == <<now, ticks, realtime_weather, alert_events, session, thresholds, upd,
          updates, rd, pc, idx, weather_data, cycles, log, ran, escaped, call,
          evalNo, lastEval, written, jobVars, aggVars, rateVars, testVars,
          dashVars, cacheVars>>

---------------------------------------------------------------------------
(* Bounds of the model *)

NumCities == 2
MaxCycles == 1
MaxTicks == 1
MaxUpdates == 1
MaxRuns == 2
MaxRequests == 7
MaxCalls == 4

---------------------------------------------------------------------------
(* Program constants *)

CITIES == <<"Delhi", "Mumbai", "Chennai", "Bangalore", "Kolkata", "Hyderabad">>

Cities == {CITIES[i] : i \in 1..NumCities}

RetentionHours == 24

\* 273.15, in hundredths of a degree
KelvinOffset == 27315

\* @rate_limit(limit=5, interval=60) on every endpoint
RateLimit == 5

RateInterval == 60

\* @cache_with_timeout(300) on fetch_realtime_data_from_db
CacheTimeout == 300

\* the cron trigger: hour=0, minute=1; the first hour of a day stands for the
\* time from 00:00 up to the fire time
CronHour == 0

\* the keys of the thresholds dict, in the order the code visits them
Fields == <<"temp", "feels_like", "pressure", "humidity", "rain", "clouds">>

FieldSet == {Fields[i] : i \in 1..Len(Fields)}

\* the trigger name insert_alert_event is given for each field
Trigger(f) ==
    CASE f = "temp" -> "Temperature"
      [] f = "feels_like" -> "Feels Like"
      [] f = "pressure" -> "Pressure"
      [] f = "humidity" -> "Humidity"
      [] f = "rain" -> "Rain"
      [] f = "clouds" -> "Clouds"

\* readings carry temperatures in hundredths, thresholds are whole numbers
Unit(f) == IF f \in {"temp", "feels_like"} THEN 100 ELSE 1

\* thresholds = Thresholds(temp=[0, 100], ...)
DefaultThresholds ==
    [f \in FieldSet |-> IF f = "pressure" THEN <<0, 1000>> ELSE <<0, 100>>]

NoData == [none |-> TRUE]

---------------------------------------------------------------------------
(* Upstream responses (inputs) *)

\* keys an OpenWeather payload can hold; "rain.1h" and "clouds.all" are the
\* inner keys of the rain and clouds objects
AllKeys == {"dt", "weather", "main", "rain", "rain.1h", "clouds", "clouds.all"}

Mild ==
    [keys |-> AllKeys \ {"rain", "rain.1h"}, main |-> "Clear", temp |-> 29815,
     feels_like |-> 29815, pressure |-> 990, humidity |-> 40, rain |-> 0,
     clouds |-> 0]

Freezing ==
    [keys |-> AllKeys, main |-> "Snow", temp |-> 26315, feels_like |-> 26315,
     pressure |-> 990, humidity |-> 40, rain |-> 0, clouds |-> 0]

Bodies == {Mild, Freezing}

\* how many hours before now the upstream's 'dt' lies
Lags == {0, 30}

OkResponse(b, dt) ==
    [geo |-> "ok", status |-> 200, body |-> b, dt |-> dt]

\* the geocoding call fails, the geocoding result is empty, the weather call
\* fails, the weather payload lacks a required key
FailedResponses ==
    { [OkResponse(Mild, 0) EXCEPT !.geo = "status"],
      [OkResponse(Mild, 0) EXCEPT !.geo = "empty"],
      [OkResponse(Mild, 0) EXCEPT !.status = 500],
      OkResponse([Mild EXCEPT !.keys = AllKeys \ {"main"}], 0) }

Responses(t) ==
    FailedResponses \cup {OkResponse(b, t - l) : b \in Bodies, l \in Lags}

---------------------------------------------------------------------------
(* utils.py: the fetch *)

\* a conversion that keeps whole degrees only
ToWholeCelsius(k) == ((k - KelvinOffset) \div 100) * 100

\* data['main']['temp'] - 273.15, in hundredths of a degree
ToCelsius(k) == k - KelvinOffset

Raise(e) == [ok |-> FALSE, exc |-> e, data |-> NoData]

Return(d) == [ok |-> TRUE, exc |-> "none", data |-> d]

\* a geocoder that does not look at what the lookup returned
get_lat_lon_unchecked(resp) == Return(NoData)

\* the geocoding call or the weather call did not return success, or the
\* geocoding result is empty
UpstreamFailed(resp) == resp.geo # "ok" \/ resp.status # 200

\* get_lat_lon_for_city: a non-200 status raises Exception, an empty result
\* list makes response.json()[0] raise IndexError
get_lat_lon_for_city(resp) ==
    IF resp.geo = "status" THEN Raise("Exception")
    ELSE IF resp.geo = "empty" THEN Raise("IndexError")
    ELSE Return(NoData)

\* fetch_weather_data: the normalised dict, or the exception raised
fetch_weather_data(city, resp) ==
    LET geo == get_lat_lon_for_city(resp)
        b == resp.body
    IN  IF ~geo.ok THEN geo
        ELSE IF resp.status # 200 THEN Raise("Exception")
        ELSE IF ~({"dt", "weather", "main", "clouds"} \subseteq b.keys)
             THEN Raise("KeyError")
        ELSE Return([dt |-> resp.dt,
                     main_condition |-> b.main,
                     temp |-> ToCelsius(b.temp),
                     feels_like |-> ToCelsius(b.feels_like),
                     pressure |-> b.pressure,
                     humidity |-> b.humidity,
                     rain |-> IF {"rain", "rain.1h"} \subseteq b.keys
                              THEN b.rain ELSE 0,
                     clouds |-> IF "clouds.all" \in b.keys
                                THEN b.clouds ELSE 0,
                     city |-> city])

---------------------------------------------------------------------------
(* main.py: the per-city try/except of fetch_and_insert_data *)

\* a narrower except clause: only the errors the fetch raises by hand
CaughtOnlyRaisedByHand(exc) == exc = "Exception"

\* "except Exception" catches every exception class the body can raise
CaughtByCycle(exc) ==
    exc \in {"Exception", "IndexError", "KeyError", "TypeError",
             "IntegrityError", "PendingRollbackError"}

\* "except Exception" of insert_fetched_data, which only prints
CaughtByInsertFetchedData(exc) ==
    exc \in {"Exception", "IndexError", "KeyError", "TypeError",
             "IntegrityError", "PendingRollbackError"}

City == CITIES[idx]

\* a loop that fetches a city a second time when its first fetch raised
NextCityAfterRetry ==
    IF pc = "fetch" /\ "fetch" \notin ran[City]
    THEN pc' = "fetch" /\ idx' = idx
    ELSE IF idx < NumCities
    THEN pc' = "fetch" /\ idx' = idx + 1
    ELSE pc' = "idle" /\ idx' = idx

\* the for loop moves to the next city, or the coroutine returns
NextCity ==
    IF idx < NumCities
    THEN pc' = "fetch" /\ idx' = idx + 1
    ELSE pc' = "idle" /\ idx' = idx

\* how the try statement for a city ends: exc = "none" is the success log
EndCity(exc) ==
    IF exc = "none"
    THEN log' = [log EXCEPT ![City] = "info"] /\ escaped' = escaped /\ NextCity
    ELSE IF CaughtByCycle(exc)
    THEN log' = [log EXCEPT ![City] = "error"] /\ escaped' = escaped /\ NextCity
    ELSE log' = log /\ escaped' = TRUE /\ pc' = "idle" /\ idx' = idx

NoCall ==
    [now |-> 0, pre |-> {}, swept |-> FALSE, mid |-> {}, written |-> FALSE,
     exc |-> "none", done |-> FALSE, row |-> NoData]

---------------------------------------------------------------------------
(* db_utils.py: the module-level session and the raw-reading table *)

\* a session whose flush failed stays inactive until rollback(), which the
\* code never calls: every later query or commit raises
SessionGuard(sess) ==
    IF sess = "active" THEN "none" ELSE "PendingRollbackError"

\* a sweep that also deletes the rows exactly 24 hours old
cleanup_through_cutoff(sess, table, t) ==
    IF SessionGuard(sess) # "none"
    THEN [exc |-> SessionGuard(sess), table |-> table]
    ELSE [exc |-> "none",
          table |-> {r \in table : ~(r.dt <= t - RetentionHours)}]

\* cleanup_old_realtime_weather: delete the rows with dt < now - 24h, commit
cleanup_old_realtime_weather(sess, table, t) ==
    IF SessionGuard(sess) # "none"
    THEN [exc |-> SessionGuard(sess), table |-> table]
    ELSE [exc |-> "none",
          table |-> {r \in table : ~(r.dt < t - RetentionHours)}]

\* the primary key of realtime_weather is (dt, city)
SameKey(r, q) == r.dt = q.dt /\ r.city = q.city

\* second half of insert_realtime_weather: session.add(new_data), commit.
\* A row with the same primary key makes the flush fail with IntegrityError
\* and leaves the session inactive.
add_realtime_weather(sess, table, row) ==
    IF SessionGuard(sess) # "none"
    THEN [exc |-> SessionGuard(sess), table |-> table, session |-> sess]
    ELSE IF \E q \in table : SameKey(q, row)
    THEN [exc |-> "IntegrityError", table |-> table, session |-> "inactive"]
    ELSE [exc |-> "none", table |-> table \cup {row}, session |-> sess]

\* insert_alert_event: session.add(new_event), commit
insert_alert_event(sess) == SessionGuard(sess)

---------------------------------------------------------------------------
(* db_utils.py: aggregate_daily_weather *)

\* datetime.date.today(), func.date(RealtimeWeather.dt): the day of an hour
Date(t) == t \div 24

\* the condition labels in the order in which the database compares strings
Conditions == <<"Clear", "Clouds", "Rain", "Snow">>

Rank(c) == CHOOSE i \in 1..Len(Conditions) : Conditions[i] = c

\* a query without the filter on dt
ReadingsOfAnyDay(table, today) == table

\* filter(dt >= start_time, dt <= end_time): 00:00:00 to 23:59:59.999999
TodaysReadings(table, today) ==
    {r \in table : r.dt >= today * 24 /\ r.dt <= today * 24 + 23}

\* a grouping by date alone
GroupOfAnyCity(rows, c, d) == {r \in rows : Date(r.dt) = d}

\* group_by(city, func.date(dt)): the rows of one group
GroupOf(rows, c, d) == {r \in rows : r.city = c /\ Date(r.dt) = d}

RECURSIVE SumTemp(_)
SumTemp(g) ==
    IF g = {} THEN 0
    ELSE LET r == CHOOSE x \in g : TRUE IN r.temp + SumTemp(g \ {r})

RECURSIVE GCD(_, _)
GCD(a, b) == IF b = 0 THEN a ELSE GCD(b, a % b)

Abs(x) == IF x < 0 THEN 0 - x ELSE x

\* func.avg(temp): the exact quotient sum/count as a fraction in lowest terms
\* (the column is Numeric, the average is not rounded to the hundredth)
AvgTemp(g) ==
    LET sum == SumTemp(g)
        n == Cardinality(g)
        d == GCD(Abs(sum), n)
    IN  <<sum \div d, n \div d>>

\* func.max(temp)
MaxTemp(g) == CHOOSE x \in {r.temp : r \in g} : \A r \in g : r.temp <= x

\* func.min(temp)
MinTemp(g) == CHOOSE x \in {r.temp : r \in g} : \A r \in g : x <= r.temp

\* the least label of a group
MinCondition(g) ==
    CHOOSE c \in {r.main_condition : r \in g} :
        \A r \in g : Rank(c) <= Rank(r.main_condition)

\* func.max(main_condition): the greatest label of a group
MaxCondition(g) ==
    CHOOSE c \in {r.main_condition : r \in g} :
        \A r \in g : Rank(r.main_condition) <= Rank(c)

\* DailyWeather(date=row.date, city=row.city, ...) for one group
DailyWeather(g, c, d) ==
    [date |-> d, city |-> c, avg_temp |-> AvgTemp(g), max_temp |-> MaxTemp(g),
     min_temp |-> MinTemp(g), dom_condition |-> MaxCondition(g)]

\* session.query(...).filter(...).group_by(...).all()
QueryResult(table, today) ==
    LET rows == TodaysReadings(table, today)
    IN  {DailyWeather(GroupOf(rows, k[1], k[2]), k[1], k[2]) :
            k \in {<<r.city, Date(r.dt)>> : r \in rows}}

\* the primary key of daily_weather is (date, city)
SameDay(r, q) == r.date = q.date /\ r.city = q.city

\* session.merge(daily_weather): the object with this key the session holds
\* takes the new values
merge(p, row) == {q \in p : ~SameDay(q, row)} \cup {row}

\* a flush that removes the row it finds instead of updating it
FlushOrDelete(table, p) ==
    {q \in table : ~\E r \in p : SameDay(q, r)}
       \cup {r \in p : ~\E q \in table : SameDay(q, r)}

\* a flush that leaves the table with the merged objects alone
FlushTruncating(table, p) == IF p = {} THEN table ELSE p

\* a flush that inserts every merged object
FlushKeeping(table, p) == table \cup p

\* a commit flushes the merged objects: UPDATE where the key is stored,
\* INSERT where it is not
Flush(table, p) == {q \in table : ~\E r \in p : SameDay(q, r)} \cup p

\* the aggregation thread between two runs; before and readings are the
\* summaries and the readings of today the run found, log the runs that ended
AggIdle ==
    [pc |-> "idle", today |-> 0, result |-> {}, runs |-> 0, before |-> {},
     readings |-> {}, log |-> <<>>]

---------------------------------------------------------------------------
(* utils.py: thresholds and their evaluation *)

\* Thresholds.get_thresholds, read in one piece
get_thresholds == thresholds

\* comparisons that exclude the ends of the range
ViolatesAtEnds(data, th, f) ==
    \/ data[f] <= th[f][1] * Unit(f)
    \/ data[f] >= th[f][2] * Unit(f)

\* value < thresholds[f][0] or value > thresholds[f][1]
Violates(data, th, f) ==
    \/ data[f] < th[f][1] * Unit(f)
    \/ data[f] > th[f][2] * Unit(f)

\* check_data_against_alerts from the i-th check on: the fields for which
\* insert_alert_event was called, those it stored, and the exception raised
RECURSIVE ChecksFrom(_, _, _, _)
ChecksFrom(i, data, th, sess) ==
    IF i > Len(Fields)
    THEN [emitted |-> <<>>, stored |-> <<>>, exc |-> "none"]
    ELSE IF ~Violates(data, th, Fields[i])
    THEN ChecksFrom(i + 1, data, th, sess)
    ELSE IF insert_alert_event(sess) # "none"
    THEN [emitted |-> <<Fields[i]>>, stored |-> <<>>,
          exc |-> insert_alert_event(sess)]
    ELSE LET rest == ChecksFrom(i + 1, data, th, sess)
         IN  [emitted |-> <<Fields[i]>> \o rest.emitted,
              stored |-> <<Fields[i]>> \o rest.stored,
              exc |-> rest.exc]

check_data_against_alerts(data, th, sess) == ChecksFrom(1, data, th, sess)

\* the row insert_alert_event stores; event_id stands for the uuid4 default,
\* eval records which evaluation wrote the row
AlertEvent(id, data, th, f, n) ==
    [event_id |-> id, dt |-> data.dt, city |-> data.city,
     trigger |-> Trigger(f), reason |-> <<f, data[f], th[f]>>, eval |-> n]

\* main.py awaits the value check_data_against_alerts returns; the function
\* is a plain def returning None, and awaiting None raises TypeError
AwaitCheckResult == "TypeError"

NoEval ==
    [no |-> 0, data |-> NoData, th |-> DefaultThresholds, emitted |-> <<>>,
     exc |-> "none"]

---------------------------------------------------------------------------
(* utils.py, dash_app_threshold.py: updating and reading the thresholds *)

\* the thresholds of tests/test_server.py
TestThresholds ==
    [f \in FieldSet |->
        CASE f = "temp" -> <<20, 30>>
          [] f = "feels_like" -> <<20, 30>>
          [] f = "pressure" -> <<1000, 1020>>
          [] f = "humidity" -> <<30, 50>>
          [] f = "rain" -> <<0, 5>>
          [] f = "clouds" -> <<0, 50>>]

\* a cell of the table as the browser sends it: a number the user left
\* alone, digits typed into the cell, or typed text that is no integer
Cell(n) == [kind |-> "int", val |-> n]

Typed(n) == [kind |-> "digits", val |-> n]

Text == [kind |-> "text", val |-> 0]

\* a conversion that takes whatever is no integer for 0
int_or_zero(cell) ==
    IF cell.kind \in {"int", "digits"} THEN Return(cell.val) ELSE Return(0)

\* int(i): the number, the number the digits spell, or ValueError
int(cell) ==
    IF cell.kind \in {"int", "digits"} THEN Return(cell.val)
    ELSE Raise("ValueError")

\* the rows of the table that shows the ranges th
Rows(th) == [f \in FieldSet |-> <<Cell(th[f][1]), Cell(th[f][2])>>]

\* new_data[key] = [int(i) for i in rdata], for every key
Convertible(rows) ==
    \A f \in FieldSet : \A i \in 1..Len(rows[f]) : int(rows[f][i]).ok

Converted(rows) ==
    [f \in FieldSet |-> [i \in 1..Len(rows[f]) |-> int(rows[f][i]).data]]

\* the tables a user submits with "Save Value" (inputs)
Tables == {Rows(TestThresholds), Rows(DefaultThresholds)}

\* tables with edited cells: a minimum typed above its maximum, text in the
\* first cell, text in the last cell
EditedTables ==
    {[Rows(TestThresholds) EXCEPT !["temp"] = <<Typed(50), Typed(10)>>],
     [Rows(TestThresholds) EXCEPT !["temp"] = <<Text, Cell(30)>>],
     [Rows(DefaultThresholds) EXCEPT !["clouds"] = <<Cell(0), Text>>]}

NoSave ==
    [saved |-> FALSE, rows |-> Rows(DefaultThresholds), exc |-> "none",
     before |-> DefaultThresholds]

\* an update_thresholds that forgets its last assignment
AssignFieldButClouds(th, f, new) ==
    IF f = "clouds" THEN th ELSE [th EXCEPT ![f] = new[f]]

\* one assignment of update_thresholds: self.<f> = <f>
AssignField(th, f, new) == [th EXCEPT ![f] = new[f]]

Unread == [f \in FieldSet |-> <<>>]

\* save_values: the callback converts every cell and then calls
\* update_thresholds; a cell that int() rejects makes the callback raise
\* before the call.  upd.old keeps the ranges the update found.
save_values(rows) ==
    /\ upd.pc = 0
    /\ Convertible(rows) => updates < MaxUpdates
    /\ IF Convertible(rows)
       THEN /\ upd' = [pc |-> 1, new |-> Converted(rows), old |-> thresholds]
            /\ updates' = updates + 1
            /\ written' = written \cup {Converted(rows)}
            /\ last_save' = [saved |-> TRUE, rows |-> rows, exc |-> "none",
                             before |-> thresholds]
       ELSE /\ last_save' = [saved |-> TRUE, rows |-> rows,
                             exc |-> "ValueError", before |-> thresholds]
            /\ UNCHANGED <<upd, updates, written>>
    /\ UNCHANGED <<now, ticks, realtime_weather, alert_events, session,
                   thresholds, rd, pc, idx, weather_data, cycles, log, ran,
                   escaped, call, evalNo, lastEval, jobVars, aggVars, rateVars,
                   testVars, cacheVars>>

\* update_thresholds assigns the six attributes one after the other, with no
\* lock: other threads run between two assignments
update_thresholds ==
    /\ upd.pc \in 1..Len(Fields)
    /\ thresholds' = AssignField(thresholds, Fields[upd.pc], upd.new)
    /\ upd' = [upd EXCEPT !.pc = IF @ = Len(Fields) THEN 0 ELSE @ + 1]
    /\ UNCHANGED <<now, ticks, realtime_weather, alert_events, session,
                   updates, rd, pc, idx, weather_data, cycles, log, ran,
                   escaped, call, evalNo, lastEval, written, jobVars, aggVars,
                   rateVars, testVars, dashVars, cacheVars>>

\* get_thresholds builds its dict attribute by attribute; rd.pc = 7 is the
\* returned dict.  begun and quiet record the updates seen when it started.
get_thresholds_begin ==
    /\ rd.pc \in {0, Len(Fields) + 1}
    /\ rd' = [pc |-> 1, got |-> Unread, begun |-> updates, quiet |-> upd.pc = 0]
    /\ UNCHANGED <<now, ticks, realtime_weather, alert_events, session,
                   thresholds, upd, updates, pc, idx, weather_data, cycles,
                   log, ran, escaped, call, evalNo, lastEval, written, jobVars,
                   aggVars, rateVars, testVars, dashVars, cacheVars>>

get_thresholds_read ==
    /\ rd.pc \in 1..Len(Fields)
    /\ rd' = [rd EXCEPT !.got[Fields[rd.pc]] = thresholds[Fields[rd.pc]],
                        !.pc = @ + 1]
    /\ UNCHANGED <<now, ticks, realtime_weather, alert_events, session,
                   thresholds, upd, updates, pc, idx, weather_data, cycles,
                   log, ran, escaped, call, evalNo, lastEval, written, jobVars,
                   aggVars, rateVars, testVars, dashVars, cacheVars>>

---------------------------------------------------------------------------
(* utils.py: cache_with_timeout *)

\* key = (args, tuple(kwargs.items())) of the calls
CacheKeys == {"()", "(1,)"}

\* seconds between one call and the next
CacheGaps == {1, 299, 300, 301}

\* local time less UTC: UTC, Asia/Kolkata, America/New_York
Offsets == {0, 19800, 0 - 18000}

\* datetime.now(): the naive local time
LocalNow(t, off) == t + off

\* datetime.utcnow(): the naive UTC time
UtcNow(t) == t

\* key in cache and datetime.now() - cache[key]['timestamp'] < timeout
CacheHit(c, key, t, off) ==
    /\ key \in DOMAIN c
    /\ LocalNow(t, off) - c[key].timestamp < CacheTimeout

NoCacheCall ==
    [key |-> "none", time |-> 0, had |-> FALSE, age |-> 0, prior |-> 0,
     invoked |-> FALSE, value |-> 0]

\* the wrapper of cache_with_timeout for a call with arguments key, gap
\* seconds after the previous call.  The wrapped function returns a new
\* value at each invocation: the number of the call.  age is the time
\* since the key's entry was stored, prior the value stored then.
cache_with_timeout(key, gap) ==
    /\ calls < MaxCalls
    /\ LET t == utc + gap
           hit == CacheHit(cache, key, t, utcoffset)
           result == calls + 1
           had == key \in DOMAIN cache
       IN  /\ utc' = t
           /\ cache' =
                 IF hit THEN cache
                 ELSE [k \in DOMAIN cache \cup {key} |->
                          IF k = key
                          THEN [value |-> result, timestamp |-> UtcNow(t)]
                          ELSE cache[k]]
           /\ last_call' =
                 [key |-> key, time |-> t, had |-> had,
                  age |-> IF had THEN t - cache[key].timestamp ELSE 0,
                  prior |-> IF had THEN cache[key].value ELSE 0,
                  invoked |-> ~hit,
                  value |-> IF hit THEN cache[key].value ELSE result]
    /\ calls' = calls + 1
    /\ UNCHANGED <<now, ticks, realtime_weather, alert_events, session,
                   thresholds, upd, updates, rd, pc, idx, weather_data, cycles,
                   log, ran, escaped, call, evalNo, lastEval, written, jobVars,
                   aggVars, rateVars, testVars, dashVars, utcoffset>>

---------------------------------------------------------------------------
(* utils.py: rate_limit, the guard of the endpoints of main.py *)

\* request.client.host of the callers
Clients == {"10.0.0.1", "10.0.0.2"}

\* seconds between one request and the next
Gaps == {0, 60, 61}

\* request_counts = {}
NoRequests == [c \in {} |-> 0]

\* a window that is over only after twice the interval
WindowElapsedTwice(t, start) == t - start > 2 * RateInterval

\* current_time - request_info["timestamp"] > interval
WindowElapsed(t, start) == t - start > RateInterval

\* a check that lets two more requests through
ExceedsByTwo(count) == count > RateLimit + 2

\* request_info["count"] > limit
Exceeds(count) == count > RateLimit

\* a guard that keeps one count for all clients: that of the client that
\* came first
CountedTogether(counts, ip, t) ==
    LET first == CHOOSE c \in DOMAIN counts \cup {ip} :
                    c \in DOMAIN counts \/ DOMAIN counts = {}
        info == IF first \in DOMAIN counts THEN counts[first]
                ELSE [count |-> 0, timestamp |-> t]
        fresh == IF WindowElapsed(t, info.timestamp)
                 THEN [count |-> 0, timestamp |-> t] ELSE info
    IN  [fresh EXCEPT !.count = @ + 1]

\* request_counts[client_ip] after the insertion of a new client, the reset
\* of an elapsed window and the increment
Counted(counts, ip, t) ==
    LET info == IF ip \in DOMAIN counts THEN counts[ip]
                ELSE [count |-> 0, timestamp |-> t]
        fresh == IF WindowElapsed(t, info.timestamp)
                 THEN [count |-> 0, timestamp |-> t] ELSE info
    IN  [fresh EXCEPT !.count = @ + 1]

\* a mapping that holds the entry of client ip alone
Only(counts, ip) == [c \in DOMAIN counts \cap {ip} |-> counts[c]]

\* HTTPException(status_code=429), or the wrapped handler is called
Status(info) == IF Exceeds(info.count) THEN 429 ELSE 200

NoRequest ==
    [ip |-> "none", time |-> 0, status |-> 0, invoked |-> FALSE,
     elapsed |-> FALSE, rejecting |-> FALSE, alone |-> 0]

NoWindow == [seen |-> FALSE, start |-> 0, n |-> 0, rejected |-> 0]

\* the wrapper of rate_limit for a request of client ip, gap seconds after
\* the previous request: 429 is the HTTPException raised, 200 the call of the
\* wrapped handler.  handled counts, per client, the handler calls and the
\* rejections since the first request that came more than the interval
\* after the start of the client's previous window.  alone holds, per
\* client, the entry the same code keeps when no other client ever calls.
wrapper(ip, gap) ==
    /\ requests < MaxRequests
    /\ LET t == current_time + gap
           info == Counted(request_counts, ip, t)
           status == Status(info)
           lone == Counted(Only(alone, ip), ip, t)
           h == handled[ip]
           over == h.seen /\ t - h.start > RateInterval
           w == IF ~h.seen \/ over
                THEN [seen |-> TRUE, start |-> t, n |-> 0, rejected |-> 0]
                ELSE h
       IN  /\ current_time' = t
           /\ request_counts' =
                 [c \in DOMAIN request_counts \cup {ip} |->
                     IF c = ip THEN info ELSE request_counts[c]]
           /\ last_request' =
                 [ip |-> ip, time |-> t, status |-> status,
                  invoked |-> status = 200, elapsed |-> over,
                  rejecting |-> h.rejected > 0, alone |-> Status(lone)]
           /\ alone' =
                 [c \in DOMAIN alone \cup {ip} |->
                     IF c = ip THEN lone ELSE alone[c]]
           /\ handled' =
                 [handled EXCEPT ![ip] =
                     IF status = 200 THEN [w EXCEPT !.n = @ + 1]
                     ELSE [w EXCEPT !.rejected = @ + 1]]
    /\ requests' = requests + 1
    /\ UNCHANGED <<now, ticks, realtime_weather, alert_events, session,
                   thresholds, upd, updates, rd, pc, idx, weather_data, cycles,
                   log, ran, escaped, call, evalNo, lastEval, written, jobVars,
                   aggVars, testVars, dashVars, cacheVars>>

---------------------------------------------------------------------------
(* tests/test_server.py: fetch_weather_data called on a patched requests.get *)

NotFetched ==
    [called |-> FALSE, city |-> "none", ok |-> FALSE, exc |-> "none",
     data |-> NoData]

\* weather_data = await fetch_weather_data(API_URL, OPENWEATHER_API_KEY, city)
test_data_retrieval(city) ==
    /\ mock_get # NoData
    /\ LET r == fetch_weather_data(city, mock_get)
       IN  fetched' = [called |-> TRUE, city |-> city, ok |-> r.ok,
                       exc |-> r.exc, data |-> r.data]
    /\ UNCHANGED <<now, ticks, realtime_weather, alert_events, session,
                   thresholds, upd, updates, rd, pc, idx, weather_data, cycles,
                   log, ran, escaped, call, evalNo, lastEval, written, jobVars,
                   aggVars, rateVars, mock_get, dashVars, cacheVars>>

\* no request has come in, no test has patched anything
NoTraffic ==
    /\ request_counts = NoRequests
    /\ current_time = 0
    /\ requests = 0
    /\ last_request = NoRequest
    /\ handled = [c \in Clients |-> NoWindow]
    /\ mock_get = NoData
    /\ fetched = NotFetched
    /\ alone = NoRequests
    /\ last_save = NoSave
    /\ cache = NoRequests
    /\ utc = 0
    /\ calls = 0
    /\ last_call = NoCacheCall

---------------------------------------------------------------------------
(* main.py: the scheduler *)

\* a job added to a scheduler that was not started has no fire time yet
NoRunTime == 0 - 1

\* a scheduler that lets jobs start until it was once stopped
JobsMayStartUntilStopped(s) == s # "shutdown"

\* jobs are started only between scheduler.start() and scheduler.shutdown()
JobsMayStart(s) == s = "running"

\* a trigger that is due again at once
CronAgain(t) == t

\* the cron trigger's next fire time after a fire time t
CronNext(t) == (Date(t) + 1) * 24 + CronHour

\* the cron trigger's first fire time at or after t
CronFirst(t) ==
    IF t <= Date(t) * 24 + CronHour THEN Date(t) * 24 + CronHour
    ELSE CronNext(t)

\* lifespan, before the yield: scheduler.start() schedules the added jobs
scheduler_start ==
    /\ scheduler = "stopped"
    /\ scheduler' = "running"
    /\ next_run_time' = CronFirst(now)
    /\ UNCHANGED <<now, ticks, realtime_weather, alert_events, session,
                   thresholds, upd, updates, rd, pc, idx, weather_data, cycles,
                   log, ran, escaped, call, evalNo, lastEval, written, fired,
                   aggVars, rateVars, testVars, dashVars, cacheVars>>

\* lifespan, after the yield: scheduler.shutdown()
scheduler_shutdown ==
    /\ scheduler = "running"
    /\ scheduler' = "shutdown"
    /\ UNCHANGED <<now, ticks, realtime_weather, alert_events, session,
                   thresholds, upd, updates, rd, pc, idx, weather_data, cycles,
                   log, ran, escaped, call, evalNo, lastEval, written,
                   next_run_time, fired, aggVars, rateVars, testVars,
                   dashVars, cacheVars>>

---------------------------------------------------------------------------
(* main.py: fetch_and_insert_data, one step per call it makes *)

\* the interval trigger fires
StartCycle ==
    /\ JobsMayStart(scheduler)
    /\ pc = "idle"
    /\ cycles < MaxCycles
    /\ cycles' = cycles + 1
    /\ pc' = "fetch"
    /\ idx' = 1
    /\ log' = [c \in Cities |-> "none"]
    /\ ran' = [c \in Cities |-> {}]
    /\ escaped' = FALSE
    /\ UNCHANGED <<now, ticks, realtime_weather, alert_events, session,
                   thresholds, upd, updates, rd, weather_data, call, evalNo,
                   lastEval, written, jobVars, aggVars, rateVars, testVars,
                   dashVars, cacheVars>>

\* weather_data = await fetch_weather_data(API_URL, OPENWEATHER_API_KEY, city)
FetchWeather(resp) ==
    /\ pc = "fetch"
    /\ LET r == fetch_weather_data(City, resp)
       IN  /\ ran' = [ran EXCEPT ![City] =
                         @ \cup {IF "fetch" \in @ THEN "fetch again" ELSE "fetch"}
                           \cup (IF r.ok THEN {} ELSE {"fetch raised"})
                           \cup (IF UpstreamFailed(resp)
                                 THEN {"upstream failed"} ELSE {})]
           /\ IF r.ok
              THEN /\ weather_data' = r.data
                   /\ pc' = "sweep"
                   /\ UNCHANGED <<idx, log, escaped>>
              ELSE /\ weather_data' = NoData
                   /\ EndCity(r.exc)
    /\ UNCHANGED <<now, ticks, realtime_weather, alert_events, session,
                   thresholds, upd, updates, rd, cycles, call, evalNo,
                   lastEval, written, jobVars, aggVars, rateVars, testVars,
                   dashVars, cacheVars>>

\* how insert_fetched_data ends when insert_realtime_weather raised exc
AfterInsertRaised(exc) ==
    IF CaughtByInsertFetchedData(exc)
    THEN pc' = "eval" /\ UNCHANGED <<idx, log, escaped>>
    ELSE EndCity(exc)

\* insert_fetched_data -> insert_realtime_weather, first half: the sweep.
\* Its commit also flushes what another thread merged into the session.
Sweep ==
    /\ pc = "sweep"
    /\ ran' = [ran EXCEPT ![City] = @ \cup {"store"}]
    /\ LET r == cleanup_old_realtime_weather(session, realtime_weather, now)
       IN  /\ realtime_weather' = r.table
           /\ daily_weather' =
                 IF r.exc = "none" THEN Flush(daily_weather, pending)
                 ELSE daily_weather
           /\ pending' = IF r.exc = "none" THEN {} ELSE pending
           /\ call' = [now |-> now, pre |-> realtime_weather,
                       swept |-> r.exc = "none", mid |-> r.table,
                       written |-> FALSE, exc |-> r.exc,
                       done |-> r.exc # "none", row |-> weather_data]
           /\ IF r.exc = "none"
              THEN pc' = "write" /\ UNCHANGED <<idx, log, escaped>>
              ELSE AfterInsertRaised(r.exc)
    /\ UNCHANGED <<now, ticks, alert_events, session, thresholds, upd, updates,
                   rd, weather_data, cycles, evalNo, lastEval, written,
                   jobVars, agg, rateVars, testVars, dashVars, cacheVars>>

\* insert_realtime_weather, second half: add the new row and commit.  A
\* failed flush rolls back everything the session held.
Write ==
    /\ pc = "write"
    /\ LET r == add_realtime_weather(session, realtime_weather, weather_data)
       IN  /\ realtime_weather' = r.table
           /\ session' = r.session
           /\ daily_weather' =
                 IF r.exc = "none" THEN Flush(daily_weather, pending)
                 ELSE daily_weather
           /\ pending' =
                 IF r.exc \in {"none", "IntegrityError"} THEN {} ELSE pending
           /\ call' = [call EXCEPT !.written = (r.exc = "none"),
                                   !.exc = r.exc, !.done = TRUE]
           /\ IF r.exc = "none"
              THEN pc' = "eval" /\ UNCHANGED <<idx, log, escaped>>
              ELSE AfterInsertRaised(r.exc)
    /\ UNCHANGED <<now, ticks, alert_events, thresholds, upd, updates, rd,
                   weather_data, cycles, ran, evalNo, lastEval, written,
                   jobVars, agg, rateVars, testVars, dashVars, cacheVars>>

\* await check_data_against_alerts(weather_data, thresholds.get_thresholds())
\* and the logging call that ends the try statement
Evaluate ==
    /\ pc = "eval"
    /\ ran' = [ran EXCEPT ![City] = @ \cup {"evaluate"}]
    /\ LET th == get_thresholds
           res == check_data_against_alerts(weather_data, th, session)
           base == Cardinality(alert_events)
       IN  /\ alert_events' = alert_events \cup
                  {AlertEvent(base + k, weather_data, th, res.stored[k],
                              evalNo + 1) : k \in 1..Len(res.stored)}
           /\ daily_weather' =
                 IF Len(res.stored) > 0 THEN Flush(daily_weather, pending)
                 ELSE daily_weather
           /\ pending' = IF Len(res.stored) > 0 THEN {} ELSE pending
           /\ lastEval' = [no |-> evalNo + 1, data |-> weather_data,
                           th |-> th, emitted |-> res.emitted,
                           exc |-> res.exc]
           /\ EndCity(IF res.exc # "none" THEN res.exc ELSE AwaitCheckResult)
    /\ evalNo' = evalNo + 1
    /\ weather_data' = NoData
    /\ UNCHANGED <<now, ticks, realtime_weather, session, thresholds, upd,
                   updates, rd, cycles, call, written, jobVars, agg, rateVars,
                   testVars, dashVars, cacheVars>>

---------------------------------------------------------------------------
(* db_utils.py: aggregate_daily_weather, one step per session call *)

\* today = datetime.date.today()
AggBegin ==
    agg' = [agg EXCEPT !.pc = "query", !.today = Date(now), !.result = {},
                       !.runs = @ + 1, !.before = daily_weather,
                       !.readings = {}]

\* how a run ends: exc = "none" after its commit, else the exception that
\* leaves the function; stored is the table of readings at that time
AggEnd(a, exc, table) ==
    [a EXCEPT !.pc = "idle", !.result = {},
              !.log = Append(@, [today |-> a.today, readings |-> a.readings,
                                 before |-> a.before, after |-> table,
                                 exc |-> exc, stored |-> realtime_weather])]

\* the cron job is due: the executor starts aggregate_daily_weather in a
\* worker thread
cron_fire ==
    /\ JobsMayStart(scheduler)
    /\ now = next_run_time
    /\ agg.pc = "idle"
    /\ fired' = Append(fired, now)
    /\ next_run_time' = CronNext(next_run_time)
    /\ AggBegin
    /\ UNCHANGED <<now, ticks, realtime_weather, alert_events, session,
                   thresholds, upd, updates, rd, pc, idx, weather_data, cycles,
                   log, ran, escaped, call, evalNo, lastEval, written,
                   scheduler, daily_weather, pending, rateVars, testVars,
                   dashVars, cacheVars>>

\* the fire time has passed, or the previous run is still going: the run is
\* skipped and the trigger moves on
cron_misfire ==
    /\ JobsMayStart(scheduler)
    /\ \/ next_run_time < now
       \/ next_run_time = now /\ agg.pc # "idle"
    /\ next_run_time' =
          IF next_run_time < now THEN CronFirst(now)
          ELSE CronNext(next_run_time)
    /\ UNCHANGED <<now, ticks, realtime_weather, alert_events, session,
                   thresholds, upd, updates, rd, pc, idx, weather_data, cycles,
                   log, ran, escaped, call, evalNo, lastEval, written,
                   scheduler, fired, aggVars, rateVars, testVars,
                   dashVars, cacheVars>>

\* aggregate_daily_weather called directly, as tests/test_server.py does
aggregate_daily_weather ==
    /\ agg.pc = "idle"
    /\ agg.runs < MaxRuns
    /\ AggBegin
    /\ UNCHANGED <<now, ticks, realtime_weather, alert_events, session,
                   thresholds, upd, updates, rd, pc, idx, weather_data, cycles,
                   log, ran, escaped, call, evalNo, lastEval, written, jobVars,
                   daily_weather, pending, rateVars, testVars,
                   dashVars, cacheVars>>

\* result = session.query(...).filter(...).group_by(...).all()
AggQuery ==
    /\ agg.pc = "query"
    /\ IF SessionGuard(session) # "none"
       THEN agg' = AggEnd(agg, SessionGuard(session), daily_weather)
       ELSE LET rows == TodaysReadings(realtime_weather, agg.today)
                res == QueryResult(realtime_weather, agg.today)
            IN  agg' = [agg EXCEPT !.readings = rows, !.result = res,
                                   !.pc = IF res = {} THEN "commit" ELSE "merge"]
    /\ UNCHANGED <<now, ticks, realtime_weather, alert_events, session,
                   thresholds, upd, updates, rd, pc, idx, weather_data, cycles,
                   log, ran, escaped, call, evalNo, lastEval, written, jobVars,
                   daily_weather, pending, rateVars, testVars,
                   dashVars, cacheVars>>

\* one turn of "for row in result": session.merge(daily_weather)
AggMerge(row) ==
    /\ agg.pc = "merge"
    /\ row \in agg.result
    /\ IF SessionGuard(session) # "none"
       THEN /\ agg' = AggEnd(agg, SessionGuard(session), daily_weather)
            /\ pending' = pending
       ELSE /\ pending' = merge(pending, row)
            /\ agg' = [agg EXCEPT !.result = @ \ {row},
                                  !.pc = IF agg.result = {row} THEN "commit"
                                         ELSE "merge"]
    /\ UNCHANGED <<now, ticks, realtime_weather, alert_events, session,
                   thresholds, upd, updates, rd, pc, idx, weather_data, cycles,
                   log, ran, escaped, call, evalNo, lastEval, written, jobVars,
                   daily_weather, rateVars, testVars, dashVars, cacheVars>>

\* session.commit() at the end of the run
AggCommit ==
    /\ agg.pc = "commit"
    /\ IF SessionGuard(session) # "none"
       THEN /\ agg' = AggEnd(agg, SessionGuard(session), daily_weather)
            /\ UNCHANGED <<daily_weather, pending>>
       ELSE /\ daily_weather' = Flush(daily_weather, pending)
            /\ pending' = {}
            /\ agg' = AggEnd(agg, "none", Flush(daily_weather, pending))
    /\ UNCHANGED <<now, ticks, realtime_weather, alert_events, session,
                   thresholds, upd, updates, rd, pc, idx, weather_data, cycles,
                   log, ran, escaped, call, evalNo, lastEval, written, jobVars,
                   rateVars, testVars, dashVars, cacheVars>>

---------------------------------------------------------------------------
(* the clock *)

\* time passes
TickHours == {24, 30}

Tick(d) ==
    /\ ticks < MaxTicks
    /\ ticks' = ticks + 1
    /\ now' = now + d
    /\ UNCHANGED <<realtime_weather, alert_events, session, thresholds, upd,
                   updates, rd, pc, idx, weather_data, cycles, log, ran,
                   escaped, call, evalNo, lastEval, written, jobVars, aggVars,
                   rateVars, testVars, dashVars, cacheVars>>

---------------------------------------------------------------------------
(* The service at start: the tables as an earlier run of the service left  *)
(* them, the default thresholds, the scheduler idle                        *)

\* the row an earlier fetch of city c stored h hours before the start
Stored(c, h) == fetch_weather_data(c, OkResponse(Mild, 0 - h)).data

StoredBefore ==
    SUBSET {Stored(CITIES[1], 0), Stored(CITIES[2], 30), Stored(CITIES[2], 20),
            Stored(CITIES[2], 1)}

\* the summaries an earlier run of the service left: none, or one of the
\* day before
SummarisedBefore ==
    {{}, {DailyWeather({Stored(CITIES[2], 20)}, CITIES[2], Date(0 - 20))}}

\* everything but the tables
Boot ==
    /\ ticks = 0
    /\ alert_events = {}
    /\ thresholds = DefaultThresholds
    /\ upd = [pc |-> 0, new |-> DefaultThresholds, old |-> DefaultThresholds]
    /\ updates = 0
    /\ rd = [pc |-> 0, got |-> Unread, begun |-> 0, quiet |-> TRUE]
    /\ pc = "idle"
    /\ idx = 1
    /\ weather_data = NoData
    /\ cycles = 0
    /\ log = [c \in Cities |-> "none"]
    /\ ran = [c \in Cities |-> {}]
    /\ escaped = FALSE
    /\ call = NoCall
    /\ evalNo = 0
    /\ lastEval = NoEval
    /\ written = {DefaultThresholds}
    /\ scheduler = "stopped"
    /\ next_run_time = NoRunTime
    /\ fired = <<>>
    /\ pending = {}
    /\ agg = AggIdle
    /\ NoTraffic

Init ==
    /\ Boot
    /\ utcoffset = 0
    /\ now = 0
    /\ session = "active"
    /\ realtime_weather \in StoredBefore
    /\ daily_weather = {}

\* the fetch job with every upstream response, the aggregation job left out
Next ==
    \/ StartCycle
    \/ \E resp \in Responses(now) : FetchWeather(resp)
    \/ Sweep
    \/ Write
    \/ Evaluate
    \/ \E d \in TickHours : Tick(d)
    \/ \E rows \in Tables : save_values(rows)
    \/ update_thresholds
    \/ scheduler_start
    \/ scheduler_shutdown

Spec == Init /\ [][Next]_vars

---------------------------------------------------------------------------
(* The whole service: both jobs, the threshold editor and the clock, on    *)
(* two upstream responses                                                  *)

ServiceResponses(t) ==
    {OkResponse(Freezing, t), [OkResponse(Mild, 0) EXCEPT !.status = 500]}

InitService ==
    /\ Boot
    /\ utcoffset = 0
    /\ now = 0
    /\ session = "active"
    /\ realtime_weather \in {{}, {Stored(CITIES[1], 0)}}
    /\ daily_weather \in SummarisedBefore

NextService ==
    \/ scheduler_start
    \/ scheduler_shutdown
    \/ StartCycle
    \/ \E resp \in ServiceResponses(now) : FetchWeather(resp)
    \/ Sweep
    \/ Write
    \/ Evaluate
    \/ cron_fire
    \/ cron_misfire
    \/ AggQuery
    \/ \E row \in agg.result : AggMerge(row)
    \/ AggCommit
    \/ save_values(Rows(TestThresholds))
    \/ update_thresholds
    \/ \E d \in TickHours : Tick(d)

SpecService == InitService /\ [][NextService]_vars

---------------------------------------------------------------------------
(* The aggregator alone: aggregate_daily_weather called up to MaxRuns      *)
(* times in a row, late in the day, on every table of readings drawn from  *)
(* a pool                                                                  *)

Reading(c, dt, temp, cond) ==
    [Stored(c, 0) EXCEPT !.dt = dt, !.temp = temp, !.feels_like = temp,
                         !.main_condition = cond]

\* three readings of today for the first city (28, 32 and 25 degrees), one
\* of today for the second city, one of the last hour of yesterday
ReadingPool ==
    {Reading(CITIES[1], 0, 2800, "Clear"), Reading(CITIES[1], 10, 3200, "Rain"),
     Reading(CITIES[1], 23, 2500, "Clear"),
     Reading(CITIES[2], 10, 3000, "Clouds"),
     Reading(CITIES[1], 0 - 1, 4000, "Snow")}

\* the summaries found: none, the one a run early today wrote for the first
\* city, or yesterday's
SummaryPool ==
    {{},
     {DailyWeather({Reading(CITIES[1], 0, 2800, "Clear")}, CITIES[1], 0)},
     {DailyWeather({Reading(CITIES[1], 0 - 1, 4000, "Snow")}, CITIES[1],
                   0 - 1)}}

InitAggregate ==
    /\ Boot
    /\ utcoffset = 0
    /\ now = 23
    /\ session \in {"active", "inactive"}
    /\ realtime_weather \in SUBSET ReadingPool
    /\ daily_weather \in SummaryPool

NextAggregate ==
    \/ aggregate_daily_weather
    \/ AggQuery
    \/ \E row \in agg.result : AggMerge(row)
    \/ AggCommit

SpecAggregate == InitAggregate /\ [][NextAggregate]_vars

---------------------------------------------------------------------------
(* The rate guard alone: up to MaxRequests requests of two clients *)

\* the service before any reading is stored
InitEmpty ==
    /\ Boot
    /\ utcoffset = 0
    /\ now = 0
    /\ session = "active"
    /\ realtime_weather = {}
    /\ daily_weather = {}

NextRateLimit == \E ip \in Clients : \E gap \in Gaps : wrapper(ip, gap)

SpecRateLimit == InitEmpty /\ [][NextRateLimit]_vars

---------------------------------------------------------------------------
(* The fetch alone: fetch_weather_data on every patched response drawn     *)
(* from a pool of payloads with and without their optional fields          *)

\* the optional keys a payload holds: an inner key only with its object
OptionalKeys ==
    {k \in SUBSET {"rain", "rain.1h", "clouds", "clouds.all"} :
        /\ "rain.1h" \in k => "rain" \in k
        /\ "clouds.all" \in k => "clouds" \in k}

\* 300 K is the temperature of the tests' payload
Payloads ==
    {[keys |-> {"dt", "weather", "main"} \cup k, main |-> m, temp |-> t,
      feels_like |-> fl, pressure |-> 1013, humidity |-> 40, rain |-> 3,
      clouds |-> 75] :
        k \in OptionalKeys, m \in {"Clear", "Rain"}, t \in {30000, 26315},
        fl \in {30000, 29550}}

\* mock_get.return_value.status_code = ..., mock_get.return_value.json = ...
patch_requests_get(resp) ==
    /\ mock_get = NoData
    /\ mock_get' = resp
    /\ UNCHANGED <<now, ticks, realtime_weather, alert_events, session,
                   thresholds, upd, updates, rd, pc, idx, weather_data, cycles,
                   log, ran, escaped, call, evalNo, lastEval, written, jobVars,
                   aggVars, rateVars, fetched, dashVars, cacheVars>>

NextFetch ==
    \/ \E b \in Payloads : \E st \in {200, 500} :
          patch_requests_get([OkResponse(b, 0) EXCEPT !.status = st])
    \/ \E city \in Cities : test_data_retrieval(city)

SpecFetch == InitEmpty /\ [][NextFetch]_vars

---------------------------------------------------------------------------
(* The cache alone: up to MaxCalls calls, in a process of each time zone *)

InitCache ==
    /\ Boot
    /\ utcoffset \in Offsets
    /\ now = 0
    /\ session = "active"
    /\ realtime_weather = {}
    /\ daily_weather = {}

NextCache ==
    \E key \in CacheKeys : \E gap \in CacheGaps : cache_with_timeout(key, gap)

SpecCache == InitCache /\ [][NextCache]_vars

---------------------------------------------------------------------------
(* The evaluator alone: one evaluation of a reading whose row is stored,   *)
(* for every temperature range and every temperature around its ends      *)

RangeEnds == {0, 20, 30}

TempsAround == {b * 100 + d : b \in RangeEnds, d \in {0 - 100, 0 - 1, 0, 1, 100}}

InitEval ==
    /\ utcoffset = 0
    /\ now = 0
    /\ ticks = 0
    /\ weather_data \in
          {[Stored(CITIES[1], 0) EXCEPT !.temp = t, !.feels_like = fl] :
              t \in TempsAround, fl \in {0 - 1000, 2500}}
    /\ realtime_weather = {weather_data}
    /\ alert_events = {}
    /\ session \in {"active", "inactive"}
    /\ thresholds \in {[DefaultThresholds EXCEPT !.temp = <<lo, hi>>] :
                          lo \in RangeEnds, hi \in RangeEnds}
    /\ upd = [pc |-> 0, new |-> thresholds, old |-> DefaultThresholds]
    /\ updates = 1
    /\ rd = [pc |-> 0, got |-> Unread, begun |-> 0, quiet |-> TRUE]
    /\ pc = "eval"
    /\ idx = 1
    /\ cycles = 1
    /\ log = [c \in Cities |-> "none"]
    /\ ran = [c \in Cities |-> IF c = CITIES[1] THEN {"fetch", "store"} ELSE {}]
    /\ escaped = FALSE
    /\ call = [now |-> 0, pre |-> {}, swept |-> session = "active", mid |-> {},
               written |-> session = "active",
               exc |-> SessionGuard(session), done |-> TRUE,
               row |-> weather_data]
    /\ evalNo = 0
    /\ lastEval = NoEval
    /\ written = {DefaultThresholds, thresholds}
    /\ scheduler = "running"
    /\ next_run_time = CronNext(now)
    /\ fired = <<>>
    /\ daily_weather = {}
    /\ pending = {}
    /\ agg = AggIdle
    /\ NoTraffic

NextEval == Evaluate

SpecEval == InitEval /\ [][NextEval]_vars

---------------------------------------------------------------------------
(* The Thresholds object alone: an updating thread and a reading thread *)

NextThresholds ==
    \/ \E rows \in Tables \cup EditedTables : save_values(rows)
    \/ update_thresholds
    \/ get_thresholds_begin
    \/ get_thresholds_read

SpecThresholds == Init /\ [][NextThresholds]_vars

---------------------------------------------------------------------------
(* Properties *)

CycleOver == pc = "idle" /\ cycles > 0

FullPipeline == {"fetch", "store", "evaluate"}

\* C1: in a fetch cycle no exception leaves fetch_and_insert_data, and when
\* the cycle is over every city's fetch was attempted and every city whose
\* own upstream calls did not fail had its store and its evaluation run,
\* whichever other cities failed
C1_FailureIsolated ==
    /\ ~escaped
    /\ CycleOver =>
          \A c \in Cities :
             /\ "fetch" \in ran[c]
             /\ "fetch raised" \notin ran[c] => ran[c] = FullPipeline

\* C1 witness: the first city's upstream call failed and the second city's
\* pipeline ran in full in the same cycle
C1_Witness ==
    /\ CycleOver
    /\ "fetch raised" \in ran[CITIES[1]]
    /\ ran[CITIES[2]] = FullPipeline

\* the alert rows the latest evaluation wrote
LastEvalAlerts == {a \in alert_events : a.eval = lastEval.no}

LastEvalViolated ==
    {f \in FieldSet : Violates(lastEval.data, lastEval.th, f)}

\* C2: an AlertEvent exists for an evaluated Reading if and only if one of
\* its six metrics was outside the thresholds its evaluation was given
C2_AlertIffViolation ==
    lastEval.no > 0 => (LastEvalAlerts # {} <=> LastEvalViolated # {})

\* C3: one evaluation persists exactly one AlertEvent, tagged with the
\* metric's trigger name, for each violated metric and none for the others
C3_OneEventPerViolatedMetric ==
    lastEval.no > 0 =>
       /\ \A f \in FieldSet :
             Cardinality({a \in LastEvalAlerts : a.trigger = Trigger(f)})
                = IF f \in LastEvalViolated THEN 1 ELSE 0
       /\ Cardinality(LastEvalAlerts) = Cardinality(LastEvalViolated)

\* how often the latest evaluation raised a temperature alert
TempAlertsRaised ==
    Cardinality({k \in 1..Len(lastEval.emitted) : lastEval.emitted[k] = "temp"})

\* C4: a temperature equal to the minimum or the maximum of its range raises
\* no temperature alert, a temperature one unit (or one hundredth) below the
\* minimum or above the maximum raises exactly one; where the session
\* stores alerts, just as many Temperature rows are stored
C4_InclusiveBoundaries ==
    lastEval.no > 0 =>
       LET t == lastEval.data.temp
           lo == lastEval.th["temp"][1] * 100
           hi == lastEval.th["temp"][2] * 100
       IN  /\ (lo <= hi /\ t \in {lo, hi}) => TempAlertsRaised = 0
           /\ t \in {lo - 100, lo - 1, hi + 1, hi + 100} => TempAlertsRaised = 1
           /\ session = "active" =>
                 Cardinality({a \in LastEvalAlerts : a.trigger = "Temperature"})
                    = TempAlertsRaised

\* C4 witness: a reading whose temperature is exactly the maximum of a range
\* with distinct ends was evaluated and raised no temperature alert
C4_Witness ==
    /\ lastEval.no > 0
    /\ lastEval.th["temp"][1] < lastEval.th["temp"][2]
    /\ lastEval.data.temp = lastEval.th["temp"][2] * 100
    /\ TempAlertsRaised = 0

\* C5: a completed get_thresholds returns all six ranges of one whole
\* configuration (the initial one or one handed to an update), never a mix
C5_NoTornRead ==
    rd.pc = Len(Fields) + 1 => rd.got \in written

\* a read that began with no update running and during which none began
ReadAfterUpdate ==
    /\ rd.pc = Len(Fields) + 1
    /\ rd.quiet
    /\ rd.begun = updates
    /\ updates > 0

\* C6: a read performed after an update, with no other update in between,
\* returns exactly the six ranges that update was given
C6_ReadReturnsWritten ==
    ReadAfterUpdate => rd.got = upd.new

\* C6 witness: such a read returned the ranges of the submitted table, which
\* differ from the initial ones
C6_Witness ==
    /\ ReadAfterUpdate
    /\ rd.got = TestThresholds

\* C7: in an append call the new row is durable by the time the call's
\* retention sweep has run
C7_WriteBeforeSweep ==
    call.swept => call.written

\* C8: once an append call is over, no stored row is older than 24 hours
\* before the now of that call
C8_NoStaleRowAfterAppend ==
    call.done =>
       \A r \in realtime_weather : ~(r.dt < call.now - RetentionHours)

\* C9: the sweep of an append call removes only rows older than now - 24h:
\* it adds nothing, every row not older is kept, after a sweep that ran no
\* older row is left, and the call changes the table in no other way than by
\* its own new row
C9_SweepRemovesOnlyOldRows ==
    call.row # NoData =>
       /\ call.mid \subseteq call.pre
       /\ \A r \in call.pre :
             r.dt >= call.now - RetentionHours => r \in call.mid
       /\ call.swept =>
             \A r \in call.mid : r.dt >= call.now - RetentionHours
       /\ call.mid \subseteq realtime_weather
       /\ realtime_weather \subseteq call.mid \cup {call.row}

\* C9 witness: with rows of Mumbai at now - 30h, now - 20h and now - 1h, an
\* append for Mumbai ran; the first row is gone and the other two remain
C9_Witness ==
    /\ call.done /\ call.written
    /\ call.now = now
    /\ call.row.city = CITIES[2]
    /\ {Stored(CITIES[2], 30), Stored(CITIES[2], 20), Stored(CITIES[2], 1)}
          \subseteq call.pre
    /\ Stored(CITIES[2], 30) \notin realtime_weather
    /\ {Stored(CITIES[2], 20), Stored(CITIES[2], 1)} \subseteq realtime_weather

\* C10: every append adds a new row and does not fail, also when a row with
\* the same (dt, city) is already stored
C10_AppendAlwaysAddsRow ==
    call.done =>
       /\ call.exc = "none"
       /\ call.row \in realtime_weather
       /\ Cardinality(realtime_weather) = Cardinality(call.mid) + 1

---------------------------------------------------------------------------
(* Properties of the aggregation *)

\* the runs of aggregate_daily_weather that ended
Runs == agg.log

LastRun == Runs[Len(Runs)]

\* the latest run has ended, with its commit
RunCommitted == agg.pc = "idle" /\ Len(Runs) > 0 /\ LastRun.exc = "none"

\* the stored readings of city c whose timestamp lies on day d
ReadingsOn(c, d) ==
    {r \in realtime_weather : r.city = c /\ r.dt \div 24 = d}

SummariesOf(table, c, d) == {s \in table : s.city = c /\ s.date = d}

\* C11: of two runs in succession that both committed and found the same
\* readings, the second leaves the summaries exactly as the first left them
C11_AggregationIdempotent ==
    \A i \in 1..Len(Runs) - 1 :
       (/\ Runs[i].exc = "none"
        /\ Runs[i + 1].exc = "none"
        /\ Runs[i].readings = Runs[i + 1].readings
        /\ Runs[i].today = Runs[i + 1].today)
          => Runs[i + 1].after = Runs[i].after

\* C11 witness: two runs committed on the same readings, the first of them
\* replaced a summary it found, and the summaries after both are the same
C11_Witness ==
    /\ Len(Runs) = 2
    /\ Runs[1].exc = "none" /\ Runs[2].exc = "none"
    /\ Runs[1].readings # {}
    /\ Runs[1].before # {}
    /\ Runs[1].after # Runs[1].before
    /\ Runs[2].after = Runs[1].after

\* C12: after a run that committed, every city with a reading of today has a
\* summary for (today, city) whose maximum is the largest, whose minimum is
\* the smallest and whose average is sum/count of the temperatures of just
\* that city's readings of today
C12_SummaryReflectsTodaysReadings ==
    RunCommitted =>
       \A c \in Cities :
          LET g == ReadingsOn(c, LastRun.today)
          IN  g # {} =>
                 /\ SummariesOf(daily_weather, c, LastRun.today) # {}
                 /\ \A s \in SummariesOf(daily_weather, c, LastRun.today) :
                       /\ \E r \in g : r.temp = s.max_temp
                       /\ \A r \in g : r.temp <= s.max_temp
                       /\ \E r \in g : r.temp = s.min_temp
                       /\ \A r \in g : s.min_temp <= r.temp
                       /\ s.avg_temp[1] * Cardinality(g)
                             = SumTemp(g) * s.avg_temp[2]

\* C12 witness: with readings of 28, 32 and 25 degrees for the first city
\* today, a reading of the second city and one of yesterday, the committed
\* summary of the first city has maximum 32, minimum 25 and average 85/3
\* (28.33), and the second city has its own summary
C12_Witness ==
    /\ RunCommitted
    /\ realtime_weather = ReadingPool
    /\ \E s \in SummariesOf(daily_weather, CITIES[1], 0) :
          /\ s.max_temp = 3200
          /\ s.min_temp = 2500
          /\ s.avg_temp = <<8500, 3>>
    /\ SummariesOf(daily_weather, CITIES[2], 0) # {}

\* C13: the table of summaries never holds two rows with one (date, city),
\* and a row a committed run found under a key it wrote is not kept beside
\* or instead of the new one: the key's only row is the one just computed
C13_OneSummaryPerKey ==
    /\ \A s \in daily_weather : \A q \in daily_weather :
          (s.date = q.date /\ s.city = q.city) => s = q
    /\ RunCommitted =>
          \A c \in Cities :
             LastRun.readings \cap ReadingsOn(c, LastRun.today) # {} =>
                /\ Cardinality(SummariesOf(LastRun.after, c, LastRun.today)) = 1
                /\ \A s \in SummariesOf(LastRun.after, c, LastRun.today) :
                      /\ s.max_temp \in {r.temp : r \in LastRun.readings}
                      /\ s.min_temp \in {r.temp : r \in LastRun.readings}
                      /\ s.avg_temp[1] * Cardinality(ReadingsOn(c, LastRun.today))
                            = SumTemp(ReadingsOn(c, LastRun.today))
                                 * s.avg_temp[2]

\* C13 witness: a committed run found a summary for (today, first city) with
\* other values; afterwards the key has one row, and it is not the old one
C13_Witness ==
    /\ RunCommitted
    /\ SummariesOf(LastRun.before, CITIES[1], LastRun.today) # {}
    /\ Cardinality(SummariesOf(daily_weather, CITIES[1], LastRun.today)) = 1
    /\ SummariesOf(daily_weather, CITIES[1], LastRun.today)
          \cap LastRun.before = {}

\* C14: the dominant condition of a committed summary is a label of one of
\* the city's readings of the day, and no reading of that city and day has a
\* label that comes later in string order
C14_DominantIsGreatestLabel ==
    RunCommitted =>
       \A c \in Cities :
          \A s \in SummariesOf(daily_weather, c, LastRun.today) :
             LET g == ReadingsOn(c, LastRun.today)
             IN  g # {} =>
                    /\ s.dom_condition \in {r.main_condition : r \in g}
                    /\ \A r \in g :
                          Rank(r.main_condition) <= Rank(s.dom_condition)

\* C14 witness: two readings "Clear" and one "Rain" for the first city
\* today; the committed summary's dominant condition is "Rain"
C14_Witness ==
    /\ RunCommitted
    /\ {r.main_condition : r \in ReadingsOn(CITIES[1], LastRun.today)}
          = {"Clear", "Rain"}
    /\ Cardinality({r \in ReadingsOn(CITIES[1], LastRun.today) :
                       r.main_condition = "Clear"}) = 2
    /\ \A s \in SummariesOf(daily_weather, CITIES[1], LastRun.today) :
          s.dom_condition = "Rain"

\* C15: when a run of the aggregation failed, the summaries are as the run
\* found them: none of its upserts is durable
C15_FailedRunLeavesNoSummary ==
    (agg.pc = "idle" /\ Len(Runs) > 0 /\ LastRun.exc # "none")
       => daily_weather = LastRun.before

---------------------------------------------------------------------------
(* Properties of the fetch cycle, of the stores and of the scheduler *)

\* C16: when insert_realtime_weather failed for a city's reading, the
\* reading is not evaluated in that cycle
C16_StoreFailureAbortsCity ==
    (call.done /\ call.exc # "none" /\ "store" \in ran[call.row.city])
       => "evaluate" \notin ran[call.row.city]

\* C17: a city whose geocoding call failed or returned nothing, or whose
\* weather call failed, had its fetch raise, was logged as failed, and had
\* neither the store (sweep and insert) nor the evaluation called for it
C17_FailedFetchWritesNothing ==
    \A c \in Cities :
       "upstream failed" \in ran[c] =>
          /\ "fetch raised" \in ran[c]
          /\ "store" \notin ran[c]
          /\ "evaluate" \notin ran[c]
          /\ log[c] = "error"

\* C17 witness: a cycle is over in which both cities' upstream calls failed;
\* no reading is stored, no append was called, no alert is stored
C17_Witness ==
    /\ CycleOver
    /\ \A c \in Cities : "upstream failed" \in ran[c]
    /\ realtime_weather = {}
    /\ call = NoCall
    /\ alert_events = {}

\* C18: no step of the service removes or changes a stored alert, and no
\* step removes a (date, city) from the summaries
C18_AlertsAndSummaryKeysOnlyGrow ==
    [][/\ alert_events \subseteq alert_events'
       /\ \A s \in daily_weather :
             \E q \in daily_weather' : q.date = s.date /\ q.city = s.city]_vars

\* C18 witness: a retention sweep has deleted a reading, an evaluation has
\* stored alerts, an aggregation has committed a new summary and a
\* threshold update has finished; the summary of the day before is there
C18_Witness ==
    /\ call.done /\ call.mid # call.pre
    /\ alert_events # {}
    /\ RunCommitted /\ LastRun.after # LastRun.before
    /\ thresholds = TestThresholds
    /\ \E s \in daily_weather : s.date < 0

\* C19: a fetch cycle or an aggregation run starts only while the scheduler
\* is running, after its start and before its shutdown
C19_JobsStartOnlyWhileRunning ==
    [][(cycles' # cycles \/ fired' # fired)
          => (scheduler = "running" /\ scheduler' = "running")]_vars

\* C19 witness: the scheduler was shut down while a fetch cycle and an
\* aggregation run were going on, and both go on
C19_Witness ==
    /\ scheduler = "shutdown"
    /\ pc = "eval"
    /\ agg.pc = "commit"

\* C20: the aggregation job is started only at its fire time of a day, and
\* no two starts fall on the same day
C20_OneAggregationPerDay ==
    /\ \A i \in 1..Len(fired) : fired[i] % 24 = CronHour
    /\ \A i \in 1..Len(fired) : \A j \in 1..Len(fired) :
          i # j => fired[i] \div 24 # fired[j] \div 24

\* C20 witness: the run of the first day failed and the next run was
\* started at the fire time of the next day
C20_Witness ==
    /\ Len(fired) = 2
    /\ Len(Runs) > 0
    /\ Runs[1].exc # "none"
    /\ fired[2] = fired[1] + 24

---------------------------------------------------------------------------
(* Properties of recovery, of the cycle's order, of the rate guard and of  *)
(* the fetch                                                               *)

\* C21: after a city's store failed in the fetch cycle, an aggregation run
\* started on a later day completes without an exception
C21_LaterRunsSucceed ==
    \A i \in 1..Len(Runs) :
       (call.done /\ call.exc = "IntegrityError"
          /\ Runs[i].today > Date(call.now))
          => Runs[i].exc = "none"

\* C22: in a fetch cycle no city is fetched a second time, the cities are
\* fetched in the configured order, and when the cycle is over every city
\* was fetched, whether its fetch raised or not
C22_EachCityFetchedOnce ==
    /\ \A c \in Cities : "fetch again" \notin ran[c]
    /\ pc # "idle" =>
          \A i \in 1..NumCities :
             "fetch" \in ran[CITIES[i]] <=>
                (i < idx \/ (i = idx /\ pc # "fetch"))
    /\ (CycleOver /\ ~escaped) => \A c \in Cities : "fetch" \in ran[c]

\* C22 witness: a cycle is over in which the first city's fetch raised and
\* every city was fetched
C22_Witness ==
    /\ CycleOver
    /\ "fetch raised" \in ran[CITIES[1]]
    /\ \A c \in Cities : "fetch" \in ran[c]
    /\ \E c \in Cities : "evaluate" \in ran[c]

\* the ranges of the most recent update that completed
LastCompleted == IF upd.pc = 0 THEN upd.new ELSE upd.old

\* C23: every evaluation uses the ranges of the most recent update that
\* completed before the evaluation began
C23_EvaluationUsesLastCompleted ==
    [][evalNo' > evalNo => lastEval'.th = LastCompleted]_vars

\* the window of the client of the last request, as the history counts it
LastWindow == handled[last_request.ip]

\* C24: per client and window at most RateLimit requests reach the handler;
\* a request is rejected with 429 only once RateLimit requests of the window
\* reached the handler, and the handler is not called for a rejected request
C24_AtMostLimitPerWindow ==
    /\ \A c \in Clients :
          /\ handled[c].n <= RateLimit
          /\ handled[c].rejected > 0 => handled[c].n = RateLimit
    /\ requests > 0 =>
          /\ last_request.status \in {200, 429}
          /\ last_request.status = 429 <=> ~last_request.invoked
          /\ (last_request.status = 429) = (LastWindow.rejected > 0)

\* C24 witness: a client's window saw RateLimit handler calls and then a
\* rejected request, while the other client was served
C24_Witness ==
    /\ requests > 0
    /\ last_request.status = 429
    /\ LastWindow.n = RateLimit
    /\ LastWindow.rejected >= 1
    /\ \E c \in Clients : c # last_request.ip /\ handled[c].n = 1

\* C25: a request that comes more than RateInterval after the start of its
\* client's window resets the count, starts a window at its own time and
\* reaches the handler
C25_ElapsedWindowResets ==
    (requests > 0 /\ last_request.elapsed) =>
       /\ last_request.status = 200
       /\ last_request.invoked
       /\ request_counts[last_request.ip] =
             [count |-> 1, timestamp |-> last_request.time]

\* C25 witness: a client that was being rejected is served again by the
\* request that comes after its window elapsed
C25_Witness ==
    /\ requests > 0
    /\ last_request.elapsed
    /\ last_request.rejecting
    /\ last_request.status = 200
    /\ request_counts[last_request.ip].count = 1

\* the patched response is a success and holds every key but the optional
\* rain and clouds objects
OptionalAbsent ==
    /\ mock_get # NoData
    /\ mock_get.geo = "ok"
    /\ mock_get.status = 200
    /\ {"dt", "weather", "main"} \subseteq mock_get.body.keys
    /\ ~({"rain", "clouds"} \subseteq mock_get.body.keys)

\* C26: a successful payload without its rain or its clouds object makes
\* the fetch return a reading whose rain respectively clouds is 0, whose
\* condition is the payload's label and whose city is the requested one
C26_OptionalFieldsDefaulted ==
    (fetched.called /\ OptionalAbsent) =>
       /\ fetched.ok
       /\ "rain" \notin mock_get.body.keys => fetched.data.rain = 0
       /\ "clouds" \notin mock_get.body.keys => fetched.data.clouds = 0
       /\ fetched.data.main_condition = mock_get.body.main
       /\ fetched.data.city = fetched.city

\* C27: temp and feels_like of a fetched reading are the payload's Kelvin
\* values less 273.15, 300 K becomes 26.85, and adding 273.15 gives the
\* payload's values again
C27_KelvinToCelsius ==
    (fetched.called /\ fetched.ok) =>
       /\ fetched.data.temp = mock_get.body.temp - KelvinOffset
       /\ fetched.data.feels_like = mock_get.body.feels_like - KelvinOffset
       /\ fetched.data.temp + KelvinOffset = mock_get.body.temp
       /\ fetched.data.feels_like + KelvinOffset = mock_get.body.feels_like
       /\ mock_get.body.temp = 30000 => fetched.data.temp = 2685

\* C27 witness: a payload of 300 K that feels like 295.5 K was fetched
C27_Witness ==
    /\ fetched.called
    /\ fetched.ok
    /\ mock_get.body.temp = 30000
    /\ fetched.data.temp = 2685
    /\ fetched.data.feels_like = 2235

\* C28: a city whose reading was fetched, stored and evaluated without an
\* exception is logged as a success
C28_SuccessIsLogged ==
    (lastEval.no > 0 /\ lastEval.exc = "none" /\ call.done
       /\ call.exc = "none" /\ call.row = lastEval.data)
       => log[lastEval.data.city] = "info"

\* C29: while an aggregation run is in progress the summary table is the
\* one the run found: nothing of the run is durable before its own commit
C29_OnlyOwnCommitStores ==
    agg.pc # "idle" => daily_weather = agg.before

\* C30: in a cycle that began with a working session, the append of a city
\* after the first succeeds unless its own row is a duplicate, whatever
\* happened to the cities before it
C30_LaterCitiesStored ==
    (call.done /\ call.row.city # CITIES[1]
       /\ ~\E r \in call.pre : SameKey(r, call.row))
       => call.exc = "none"

---------------------------------------------------------------------------
(* Properties of the daily boundary, of the aggregation's frame and of     *)
(* retention over cycles                                                   *)

\* a run for date d has committed, with reading r in the table
AggregatedWith(d, r) ==
    \E i \in 1..Len(Runs) :
       Runs[i].today = d /\ Runs[i].exc = "none" /\ r \in Runs[i].stored

\* C31: once a run of the next date has committed with a reading in the
\* table, the summary of (the reading's date, its city) exists and its
\* minimum and maximum enclose the reading's temperature
C31_EveryReadingSummarised ==
    \A r \in realtime_weather :
       (agg.pc = "idle" /\ AggregatedWith(Date(r.dt) + 1, r))
          => \E s \in SummariesOf(daily_weather, r.city, Date(r.dt)) :
                s.min_temp <= r.temp /\ r.temp <= s.max_temp

\* the keys (date, city) under which a table holds a summary
Keys(table) == {<<s.date, s.city>> : s \in table}

\* the readings of today of city c that the run's query returned
SeenToday(c) ==
    {r \in agg.readings : r.city = c /\ Date(r.dt) = agg.today}

\* C32: a step of an aggregation run leaves every reading and every alert
\* as it was, leaves unchanged every summary that is of another date or of
\* a city without a reading today, and adds or replaces summaries only
\* under (today, c) for cities c that have a reading today
C32_RunChangesOnlyTodaysSummaries ==
    [][agg' # agg =>
          /\ realtime_weather' = realtime_weather
          /\ alert_events' = alert_events
          /\ \A s \in daily_weather :
                (s.date # agg.today \/ SeenToday(s.city) = {})
                   => s \in daily_weather'
          /\ \A s \in daily_weather' \ daily_weather :
                s.date = agg.today /\ SeenToday(s.city) # {}
          /\ \A k \in Keys(daily_weather') \ Keys(daily_weather) :
                k[1] = agg.today /\ SeenToday(k[2]) # {}]_vars

\* C32 witness: a run committed that found a summary of yesterday, a reading
\* of yesterday and readings of today for the first city alone; it wrote
\* the first city's summary of today and nothing else
C32_Witness ==
    /\ RunCommitted
    /\ LastRun.before =
          {DailyWeather({Reading(CITIES[1], 0 - 1, 4000, "Snow")}, CITIES[1],
                        0 - 1)}
    /\ Reading(CITIES[1], 0 - 1, 4000, "Snow") \in realtime_weather
    /\ ReadingsOn(CITIES[1], LastRun.today) # {}
    /\ ReadingsOn(CITIES[2], LastRun.today) = {}
    /\ LastRun.before \subseteq daily_weather
    /\ Keys(daily_weather) \ Keys(LastRun.before)
          = {<<LastRun.today, CITIES[1]>>}

\* C33: when a fetch cycle is over, no stored reading is older than
\* RetentionHours was at the start of the service
C33_OldReadingsGoneAfterCycle ==
    CycleOver =>
       \A r \in realtime_weather : r.dt >= 0 - RetentionHours

---------------------------------------------------------------------------
(* Properties of the cache, of the threshold editor and of the rate        *)
(* guard's separation of clients                                           *)

\* C34: a call with arguments whose result was cached less than
\* CacheTimeout seconds ago returns the cached value and does not call the
\* function; a call CacheTimeout seconds or more after the caching calls
\* the function and stores its result with the time of the call
C34_CacheHonoursTimeout ==
    (calls > 0 /\ last_call.had) =>
       IF last_call.age < CacheTimeout
       THEN /\ ~last_call.invoked
            /\ last_call.value = last_call.prior
            /\ cache[last_call.key].value = last_call.prior
       ELSE /\ last_call.invoked
            /\ cache[last_call.key] =
                  [value |-> last_call.value, timestamp |-> last_call.time]

\* C35: each of the six ranges of the thresholds is two numbers, the first
\* no greater than the second
C35_RangesAreOrdered ==
    \A f \in FieldSet :
       /\ Len(thresholds[f]) = 2
       /\ thresholds[f][1] <= thresholds[f][2]

\* the latest save held a cell that is no integer
SaveHeldText ==
    /\ last_save.saved
    /\ \E f \in FieldSet : \E i \in 1..Len(last_save.rows[f]) :
          last_save.rows[f][i].kind = "text"

\* C36: a save with a cell that is no integer raises, starts no update and
\* leaves all six ranges as it found them
C36_BadSaveChangesNothing ==
    SaveHeldText =>
       /\ last_save.exc = "ValueError"
       /\ upd.pc = 0
       /\ thresholds = last_save.before

\* C36 witness: after an update to the ranges of the tests, a save whose
\* last cell is text failed and the ranges of the tests are still in place
C36_Witness ==
    /\ SaveHeldText
    /\ last_save.rows["clouds"][2] = Text
    /\ last_save.exc = "ValueError"
    /\ thresholds = TestThresholds
    /\ last_save.before = TestThresholds

\* C37: every request gets the status it gets when its client is the only
\* one that ever calls at the same times, and each client's entry is the
\* one it has then
C37_ClientsDoNotInterfere ==
    /\ requests > 0 => last_request.status = last_request.alone
    /\ DOMAIN alone = DOMAIN request_counts
    /\ \A c \in DOMAIN request_counts : request_counts[c] = alone[c]

\* C37 witness: a client is rejected while the other client, whose requests
\* came in between, is inside its own window and was served
C37_Witness ==
    /\ requests > 0
    /\ last_request.status = 429
    /\ last_request.alone = 429
    /\ \E c \in DOMAIN request_counts :
          /\ c # last_request.ip
          /\ request_counts[c].count \in 1..RateLimit
          /\ request_counts[c].timestamp >
                request_counts[last_request.ip].timestamp

====
